---- MODULE Spec2Model ----
(***************************************************************************)
(* A model of connections.core.graph.Graph as realised by                  *)
(* connections.core.directed_graph.DirectedGraph: the node store, the edge *)
(* store (a dict of couples, each a dict of edge identifiers), the         *)
(* mutation API and the calculated attributes degree and neighbors.        *)
(***************************************************************************)
EXTENDS Integers, Sequences, FiniteSets, TLC

\* ------------------------------------------------------------------ bounds
MaxCalls == 3        \* the number of calls made on the graph after construction
MaxItems == 2        \* the number of items a list held by an attribute may reach

\* the identifiers callers pass and generate_identifier() draws from
NodeIds == {"a", "b"}
EdgeIds == {"e1", "e2"}
NoId == "None"       \* identifier=None

\* ------------------------------------------------------- python values
\* Values held in attribute dicts are tagged, so that None, integers and
\* sets can live in one dict.
None == [t |-> "None"]
IntV(n) == [t |-> "int", v |-> n]
SetV(s) == [t |-> "set", v |-> s]
BoolV(b) == [t |-> "bool", v |-> b]

\* dicts are functions; {} is the function with the empty domain
EmptyDict == <<>>
Put(d, k, x) == (k :> x) @@ d
Del(d, k) == [y \in (DOMAIN d) \ {k} |-> d[y]]
Get(d, k) == IF k \in DOMAIN d THEN d[k] ELSE None

\* the sequence s without its element c
RECURSIVE Without(_, _)
Without(s, c) ==
  IF s = <<>> THEN <<>>
  ELSE IF Head(s) = c THEN Without(Tail(s), c)
  ELSE <<Head(s)>> \o Without(Tail(s), c)

\* attribute records a caller passes as **attributes
NodeAttrs == {EmptyDict, [color |-> IntV(1)], [color |-> IntV(2)]}
EdgeAttrs == {EmptyDict, [weight |-> IntV(1)]}
Calculated == {"degree", "neighbors"}

\* ------------------------------------------------------------- the graph
\* A graph value: nodes is Graph.__nodes, edges is Graph.__edges, order is
\* the insertion order of the couples of __edges (the order in which "for
\* couple in self.edges" visits them) and inner[couple] is the insertion
\* order of the edge identifiers of __edges[couple] (the order in which
\* "for ... in multiples.items()" visits them).
Graph(ns, es, ord, inn) == [nodes |-> ns, edges |-> es, order |-> ord, inner |-> inn]

\* the order of the keys of a dict after d[k] = ...: a new key comes last,
\* a key the dict holds keeps its place
Keyed(ks, k) == IF \E i \in 1..Len(ks) : ks[i] = k THEN ks ELSE Append(ks, k)
\* the outcome of a call: the graph it leaves, the exception it raised
\* ("" when it returned) and the value it returned
Res(g, e, r) == [g |-> g, err |-> e, ret |-> r]

couple_representation(l, r) == <<l, r>>

clear_degree(g) ==
  [g EXCEPT !.nodes = [n \in DOMAIN g.nodes |-> Put(g.nodes[n], "degree", IntV(0))]]

clear_neighbors(g) ==
  [g EXCEPT !.nodes = [n \in DOMAIN g.nodes |-> Put(g.nodes[n], "neighbors", SetV({}))]]

\* AddDegree counting the couple instead of its edges
AddDegreeOne(ns, n, k) ==
  [ns EXCEPT ![n] = Put(ns[n], "degree", IntV(ns[n]["degree"].v + 1))]

\* self.nodes[n]['degree'] += k
AddDegree(ns, n, k) ==
  [ns EXCEPT ![n] = Put(ns[n], "degree", IntV(ns[n]["degree"].v + k))]

\* DegreeLoop incrementing the left endpoint only (out-degree)
RECURSIVE DegreeLoopLeft(_, _)
DegreeLoopLeft(g, todo) ==
  IF todo = <<>> THEN [g |-> g, err |-> "", ret |-> NoId]
  ELSE LET c == Head(todo)
           k == Cardinality(DOMAIN g.edges[c])
       IN IF c[1] \notin DOMAIN g.nodes \/ c[2] \notin DOMAIN g.nodes
          THEN [g |-> g, err |-> "KeyError", ret |-> NoId]
          ELSE DegreeLoopLeft(
                 [g EXCEPT !.nodes[c[1]] =
                    Put(g.nodes[c[1]], "degree", IntV(g.nodes[c[1]]["degree"].v + k))],
                 Tail(todo))

\* the loop of calc_degree over the couples still to visit
RECURSIVE DegreeLoop(_, _)
DegreeLoop(g, todo) ==
  IF todo = <<>> THEN Res(g, "", NoId)
  ELSE LET c == Head(todo)
           k == Cardinality(DOMAIN g.edges[c])
       IN IF c[1] \notin DOMAIN g.nodes THEN Res(g, "KeyError", NoId)
          ELSE LET g1 == [g EXCEPT !.nodes = AddDegree(g.nodes, c[1], k)]
               IN IF c[2] \notin DOMAIN g1.nodes THEN Res(g1, "KeyError", NoId)
                  ELSE DegreeLoop([g1 EXCEPT !.nodes = AddDegree(g1.nodes, c[2], k)],
                                  Tail(todo))

calc_degree(g) == DegreeLoop(clear_degree(g), g.order)

\* AddNeighbor recording the neighbour on both endpoints
AddNeighborBoth(ns, n, m) ==
  LET ns1 == [ns EXCEPT ![n] = Put(ns[n], "neighbors", SetV(ns[n]["neighbors"].v \cup {m}))]
  IN IF m \in DOMAIN ns1
     THEN [ns1 EXCEPT ![m] = Put(ns1[m], "neighbors", SetV(ns1[m]["neighbors"].v \cup {n}))]
     ELSE ns1

\* self.nodes[n]['neighbors'].add(m)
AddNeighbor(ns, n, m) ==
  [ns EXCEPT ![n] = Put(ns[n], "neighbors", SetV(ns[n]["neighbors"].v \cup {m}))]

\* the loop of DirectedGraph.calc_neighbors over the couples still to visit
RECURSIVE NeighborsLoop(_, _)
NeighborsLoop(g, todo) ==
  IF todo = <<>> THEN Res(g, "", NoId)
  ELSE LET c == Head(todo)
       IN IF c[1] \notin DOMAIN g.nodes THEN Res(g, "KeyError", NoId)
          ELSE NeighborsLoop([g EXCEPT !.nodes = AddNeighbor(g.nodes, c[1], c[2])],
                             Tail(todo))

calc_neighbors(g) == NeighborsLoop(clear_neighbors(g), g.order)

\* "self.calc_degree(); self.calc_neighbors()" when flag is True
Recalculate(g, flag) ==
  IF ~flag THEN Res(g, "", NoId)
  ELSE LET d == calc_degree(g)
       IN IF d.err # "" THEN d ELSE calc_neighbors(d.g)

\* ------------------------------------------------------------ operations
\* add_node merging the new attributes into the old record on replace
add_node_merge(g, identifier, replace, attributes) ==
  IF identifier \in DOMAIN g.nodes
  THEN IF ~replace
       THEN [g |-> g, err |-> "NodeAlreadyExists", ret |-> NoId]
       ELSE [g |-> [g EXCEPT !.nodes[identifier] = attributes @@ g.nodes[identifier]],
             err |-> "", ret |-> identifier]
  ELSE [g |-> [g EXCEPT !.nodes = (identifier :> attributes) @@ g.nodes],
        err |-> "", ret |-> identifier]

\* Graph.add_node with a given identifier (graph.py 249-259)
add_node(g, identifier, replace, attributes) ==
  IF identifier \in DOMAIN g.nodes
  THEN IF ~replace
       THEN Res(g, "NodeAlreadyExists", NoId)
       ELSE LET old == g.nodes[identifier]
                kept == Put(Put(attributes, "degree", Get(old, "degree")),
                            "neighbors", Get(old, "neighbors"))
            IN Res([g EXCEPT !.nodes = Put(g.nodes, identifier, kept)], "", identifier)
  ELSE Res([g EXCEPT !.nodes = Put(g.nodes, identifier, attributes)], "", identifier)

\* AddIncidentNode doing nothing
AddIncidentNodeSkip(g, n) == g

\* AddIncidentNode overwriting the record of a node that exists
AddIncidentNodeReset(g, n) == [g EXCEPT !.nodes = (n :> EmptyDict) @@ g.nodes]

\* "try: self.add_node(n, replace=False) except NodeAlreadyExistsException: pass"
AddIncidentNode(g, n) == add_node(g, n, FALSE, EmptyDict).g

\* del_edge removing the whole couple whatever the identifier
del_edge_couple(g, node_l, node_r, identifier, recalc) ==
  LET couple == <<node_l, node_r>>
  IN IF couple \notin DOMAIN g.edges
        \/ (identifier # NoId /\ identifier \notin DOMAIN g.edges[couple])
     THEN [g |-> g, err |-> "KeyError", ret |-> NoId]
     ELSE Recalculate([g EXCEPT !.edges = Del(g.edges, couple),
                                !.order = Without(g.order, couple),
                                !.inner = Del(g.inner, couple)], recalc)

\* Graph.del_edge, identifier = NoId for identifier=None (graph.py 401-413)
del_edge(g, node_l, node_r, identifier, recalc) ==
  LET couple == couple_representation(node_l, node_r)
  IN IF couple \notin DOMAIN g.edges THEN Res(g, "KeyError", NoId)
     ELSE IF identifier = NoId
     THEN Recalculate([g EXCEPT !.edges = Del(g.edges, couple),
                                !.order = Without(g.order, couple),
                                !.inner = Del(g.inner, couple)], recalc)
     ELSE IF identifier \notin DOMAIN g.edges[couple] THEN Res(g, "KeyError", NoId)
     ELSE Recalculate([g EXCEPT !.edges[couple] = Del(g.edges[couple], identifier),
                                !.inner[couple] = Without(g.inner[couple], identifier)],
                      recalc)

\* the couples del_node removes: "couple for couple in self.edges if identifier in couple"
IncidentEdges(g, identifier) ==
  {c \in DOMAIN g.edges : c[1] = identifier \/ c[2] = identifier}

\* DelIncidentEdges removing only the couples that leave the node
DelIncidentEdgesLeft(g, identifier) ==
  LET inc == {c \in DOMAIN g.edges : c[1] = identifier}
  IN [g EXCEPT !.edges = [c \in (DOMAIN g.edges) \ inc |-> g.edges[c]],
               !.order = SelectSeq(g.order, LAMBDA c : c \notin inc),
               !.inner = [c \in (DOMAIN g.edges) \ inc |-> g.inner[c]]]

\* the loop of del_node: del_edge(*couple, recalculate_calculated_attributes=False)
\* for every incident couple; none of these calls can raise
DelIncidentEdges(g, identifier) ==
  LET inc == IncidentEdges(g, identifier)
  IN [g EXCEPT !.edges = [c \in (DOMAIN g.edges) \ inc |-> g.edges[c]],
               !.order = SelectSeq(g.order, LAMBDA c : c \notin inc),
               !.inner = [c \in (DOMAIN g.edges) \ inc |-> g.inner[c]]]

\* del_node without its closing recalculation, whatever the flag says
del_node_stale(g, identifier, recalc) ==
  LET g1 == DelIncidentEdges(g, identifier)
  IN IF identifier \notin DOMAIN g1.nodes THEN Res(g1, "KeyError", NoId)
     ELSE Res([g1 EXCEPT !.nodes = Del(g1.nodes, identifier)], "", NoId)

\* del_node removing the incident edges and keeping the node record
del_node_edges_only(g, identifier, recalc) ==
  LET g1 == DelIncidentEdges(g, identifier)
  IN IF identifier \notin DOMAIN g1.nodes THEN Res(g1, "KeyError", NoId)
     ELSE Recalculate(g1, recalc)

\* Graph.del_node (graph.py 279-291)
del_node(g, identifier, recalc) ==
  LET g1 == DelIncidentEdges(g, identifier)
  IN IF identifier \notin DOMAIN g1.nodes THEN Res(g1, "KeyError", NoId)
     ELSE Recalculate([g1 EXCEPT !.nodes = Del(g1.nodes, identifier)], recalc)

\* add_edge overwriting an existing edge whatever replace says
add_edge_overwrite(g, node_l, node_r, identifier, replace, create, recalc, attributes) ==
  LET couple == <<node_l, node_r>>
      present == couple \in DOMAIN g.edges
      multiples == IF present THEN g.edges[couple] ELSE EmptyDict
      g1 == [g EXCEPT !.edges = Put(g.edges, couple, Put(multiples, identifier, attributes)),
                      !.order = IF present THEN g.order ELSE Append(g.order, couple),
                      !.inner = Put(g.inner, couple,
                                    Keyed(IF present THEN g.inner[couple] ELSE <<>>,
                                          identifier))]
      g2 == IF create THEN AddIncidentNode(AddIncidentNode(g1, node_l), node_r) ELSE g1
      r == Recalculate(g2, recalc)
  IN [g |-> r.g, err |-> r.err, ret |-> IF r.err = "" THEN identifier ELSE NoId]

\* Graph.add_edge with the edge identifier already chosen (graph.py 349-374)
add_edge(g, node_l, node_r, identifier, replace, create, recalc, attributes) ==
  LET couple == couple_representation(node_l, node_r)
      present == couple \in DOMAIN g.edges
      exists == present /\ identifier \in DOMAIN g.edges[couple]
  IN IF exists /\ ~replace THEN Res(g, "EdgeAlreadyExists", NoId)
     ELSE LET multiples == IF present THEN g.edges[couple] ELSE EmptyDict
              g1 == [g EXCEPT !.edges = Put(g.edges, couple,
                                            Put(multiples, identifier, attributes)),
                              !.order = IF present THEN g.order
                                        ELSE Append(g.order, couple),
                              !.inner = Put(g.inner, couple,
                                            Keyed(IF present THEN g.inner[couple]
                                                  ELSE <<>>, identifier))]
              g2 == IF create THEN AddIncidentNode(AddIncidentNode(g1, node_l), node_r)
                    ELSE g1
              r == Recalculate(g2, recalc)
          IN Res(r.g, r.err, IF r.err = "" THEN identifier ELSE NoId)

\* Graph.clear_nodes: the nodes setter with {} (graph.py 293-295, 70-74)
clear_nodes(g) == Res([g EXCEPT !.nodes = EmptyDict], "", NoId)

\* clear_edges leaving the neighbor sets as they were
clear_edges_degree_only(g) ==
  [g |-> clear_degree([g EXCEPT !.edges = EmptyDict, !.order = <<>>, !.inner = EmptyDict]),
   err |-> "", ret |-> NoId]

\* Graph.clear_edges (graph.py 415-421)
clear_edges(g) ==
  Res(clear_neighbors(clear_degree([g EXCEPT !.edges = EmptyDict, !.order = <<>>, !.inner = EmptyDict])),
      "", NoId)

\* ------------------------------------------------------- keyword calls
\* add_node with any value for replace: "replace is False" and "replace is
\* True" (graph.py 251-253) hold of the two booleans only, and with another
\* value the record of an existing node is overwritten as it stands
add_node_value(g, identifier, replace, attributes) ==
  IF replace.t = "bool" THEN add_node(g, identifier, replace.v, attributes)
  ELSE Res([g EXCEPT !.nodes = Put(g.nodes, identifier, attributes)], "", identifier)

\* the parameters of add_node that "self.add_node(identifier=identifier,
\* **attributes)" has given a value already: self, bound by the call, and
\* identifier
AddNodeKeywords == {"self", "identifier"}

\* "self.add_node(identifier=identifier, **attributes)" (graph.py 101): a key
\* self or identifier is a second value for that parameter (TypeError, before
\* any line of add_node runs), a key replace is the parameter replace, every
\* other key is an attribute
add_node_keywords(g, identifier, attributes) ==
  IF DOMAIN attributes \cap AddNodeKeywords # {} THEN Res(g, "TypeError", NoId)
  ELSE add_node_value(g, identifier,
                      IF "replace" \in DOMAIN attributes THEN attributes["replace"]
                      ELSE BoolV(FALSE),
                      Del(attributes, "replace"))

\* add_edge with any value for replace: with a value that is not the boolean
\* False an existing edge is overwritten (graph.py 350-356)
add_edge_value(g, node_l, node_r, identifier, replace, create, recalc, attributes) ==
  add_edge(g, node_l, node_r, identifier,
           IF replace.t = "bool" THEN replace.v ELSE TRUE, create, recalc, attributes)

\* the parameters of add_edge that the two callers inside the class have
\* given a value already (graph.py 191-194, 457-460): self, bound by the
\* call, and the keywords they pass
AddEdgeKeywords ==
  {"self", "node_l", "node_r", "identifier", "add_non_existent_incident_nodes",
   "recalculate_calculated_attributes"}

\* "self.add_edge(node_l=..., node_r=..., identifier=...,
\* add_non_existent_incident_nodes=create,
\* recalculate_calculated_attributes=False, **attributes)": a key named as
\* one of the keywords passed is a TypeError, a key replace is the parameter
add_edge_keywords(g, node_l, node_r, identifier, create, recalc, attributes) ==
  IF DOMAIN attributes \cap AddEdgeKeywords # {} THEN Res(g, "TypeError", NoId)
  ELSE add_edge_value(g, node_l, node_r, identifier,
                      IF "replace" \in DOMAIN attributes THEN attributes["replace"]
                      ELSE BoolV(FALSE),
                      create, recalc, Del(attributes, "replace"))

\* ------------------------------------------------------------- projections
\* the member of a one-member set: Once({F(x) : x \in {e}}) is F(e), with e
\* computed once however often F reads x (a statement of the code runs once)
Once(S) == CHOOSE y \in S : TRUE

\* DirectedGraph(): both stores empty
EmptyGraph == Graph(EmptyDict, EmptyDict, <<>>, EmptyDict)

\* _condition keeping a couple that has one selected endpoint, whatever fullmatch
condition_any(fullmatch, node_l, node_r, selected_nodes) ==
  (node_l \in selected_nodes) \/ (node_r \in selected_nodes)

\* _condition of get_subgraph (graph.py 447-450)
condition(fullmatch, node_l, node_r, selected_nodes) ==
  IF fullmatch
  THEN (node_l \in selected_nodes) /\ (node_r \in selected_nodes)
  ELSE (node_l \in selected_nodes) \/ (node_r \in selected_nodes)

\* the names get_subgraph itself gives a value in its call of add_node
\* (graph.py 461-463): self, bound by the call, and the keywords it passes
CopyNodeKeywords ==
  {"self", "identifier", "replace", "recalculate_calculated_attributes"}

\* "subgraph.add_node(identifier=n, replace=False,
\* recalculate_calculated_attributes=False, **self.nodes[n])" with
\* NodeAlreadyExistsException passed over: add_node has no parameter
\* recalculate_calculated_attributes, so the keyword joins **attributes; a
\* record that holds one of the keywords already makes the call a TypeError
\* (multiple values for keyword argument), which nothing catches
CopyNode(g, sub, n) ==
  IF DOMAIN g.nodes[n] \cap CopyNodeKeywords # {}
  THEN Res(sub, "TypeError", NoId)
  ELSE Res(add_node(sub, n, FALSE,
                    Put(g.nodes[n], "recalculate_calculated_attributes",
                        BoolV(FALSE))).g,
           "", NoId)

\* the inner loop of get_subgraph over the edge identifiers ids of couple
\* c, in the order multiples.items() hands them out (graph.py 455);
\* self.nodes[n] raises KeyError when an endpoint has no node record
RECURSIVE CopyEdges(_, _, _, _)
CopyEdges(g, sub, c, ids) ==
  IF ids = <<>> THEN Res(sub, "", NoId)
  ELSE LET e == Head(ids)
       IN Once({
            IF r1.err # "" THEN Res(sub, r1.err, NoId)
            ELSE IF c[1] \notin DOMAIN g.nodes THEN Res(r1.g, "KeyError", NoId)
            ELSE Once({
              IF r2.err # "" THEN r2
              ELSE IF c[2] \notin DOMAIN g.nodes THEN Res(r2.g, "KeyError", NoId)
              ELSE Once({IF r3.err # "" THEN r3
                         ELSE CopyEdges(g, r3.g, c, Tail(ids)) :
                         r3 \in {CopyNode(g, r2.g, c[2])}}) :
              r2 \in {CopyNode(g, r1.g, c[1])}}) :
            r1 \in {add_edge_keywords(sub, c[1], c[2], e, FALSE, FALSE,
                                      g.edges[c][e])}})

\* the outer loop of get_subgraph over the couples still to visit
RECURSIVE SubgraphLoop(_, _, _, _, _)
SubgraphLoop(g, sub, selected_nodes, fullmatch, todo) ==
  IF todo = <<>> THEN Res(sub, "", NoId)
  ELSE LET c == Head(todo)
       IN IF condition(fullmatch, c[1], c[2], selected_nodes)
          THEN Once({IF r.err # "" THEN r
                     ELSE SubgraphLoop(g, r.g, selected_nodes, fullmatch, Tail(todo)) :
                     r \in {CopyEdges(g, sub, c, g.inner[c])}})
          ELSE SubgraphLoop(g, sub, selected_nodes, fullmatch, Tail(todo))

\* Graph.get_subgraph (graph.py 441-477): the graph g is left as it was and
\* the subgraph is the value returned
get_subgraph(g, selected_nodes, fullmatch) ==
  LET selected == selected_nodes \cap DOMAIN g.nodes
  IN Once({IF filled.err # "" THEN Res(g, filled.err, None)
           ELSE Once({Res(g, r.err, IF r.err = "" THEN r.g ELSE None) :
                      r \in {Recalculate(filled.g, TRUE)}}) :
           filled \in {SubgraphLoop(g, EmptyGraph, selected, fullmatch, g.order)}})

\* Graph.find_loops (graph.py 501-505), iterated to its end
find_loops(g) == SelectSeq(g.order, LAMBDA c : c[1] = c[2])

\* _is_complete with every couple its own pair, (a, b) apart from (b, a)
is_complete_ordered(g) ==
  LET n == Cardinality(DOMAIN g.nodes)
  IN 2 * Cardinality({c \in DOMAIN g.edges : c[1] # c[2]}) = n * (n - 1)

\* Graph._is_complete (graph.py 515-520): tuple(sorted(couple)) makes one
\* pair of (a, b) and (b, a); k == n * (n - 1) / 2 in true division is
\* 2 * k == n * (n - 1)
is_complete(g) ==
  LET n == Cardinality(DOMAIN g.nodes)
      pairs == {{c[1], c[2]} : c \in {d \in DOMAIN g.edges : d[1] # d[2]}}
  IN 2 * Cardinality(pairs) = n * (n - 1)

\* Graph._is_pseudo (graph.py 526-528)
is_pseudo(g) == find_loops(g) # <<>>

\* _is_multi counting a couple that holds one edge as well
is_multi_some(g) == \E c \in DOMAIN g.edges : Cardinality(DOMAIN g.edges[c]) > 0

\* Graph._is_multi (graph.py 530-532)
is_multi(g) == \E c \in DOMAIN g.edges : Cardinality(DOMAIN g.edges[c]) > 1

\* DirectedGraph.describe (directed_graph.py 66-78)
describe(g) ==
  Once({IF r.err # "" THEN Res(r.g, r.err, None)
        ELSE Res(r.g, "",
                 [type |-> "Directed Graph",
                  number_of_nodes |-> Cardinality(DOMAIN r.g.nodes),
                  number_of_edges |-> Cardinality(DOMAIN r.g.edges),
                  multi_graph |-> is_multi(r.g),
                  pseudo_graph |-> is_pseudo(r.g),
                  complete_graph |-> is_complete(r.g)]) :
        r \in {Recalculate(g, TRUE)}})

\* --------------------------------------------------------------- bulk loads
\* The values a caller hands to the nodes and edges properties: an
\* identifier, a tuple, a list, a dict of attributes (v, a function of its
\* string keys) and a dict with keys of any kind (items, its key-value pairs
\* in insertion order); None and IntV as above.
IdV(x) == [t |-> "id", v |-> x]
TupleV(s) == [t |-> "tuple", v |-> s]
ListV(s) == [t |-> "list", v |-> s]
AttrsV(d) == [t |-> "dict", v |-> d]
MapV(items) == [t |-> "dict", items |-> items]
\* iter(s): an iterator that hands out the members of s once
IterV(s) == [t |-> "iterator", v |-> s]

\* isinstance(x, Identifier)
IsIdentifier(x) == x.t = "id"
\* the members of a sequence: what "for x in s" runs over
Members(s) == {s[i] : i \in 1..Len(s)}
\* a set a caller passes, as the run holds it: its members, and the order in
\* which it hands them out (the order of its hash table, which for strings
\* changes from one run to another with PYTHONHASHSEED)
HashSetV(s) == [t |-> "set", v |-> Members(s), order |-> s]

\* the keys of a dict whose order of insertion the model does not keep (the
\* node store), in some order: used where the order of the keys does not
\* show in what is computed
RECURSIVE Listed(_)
Listed(S) ==
  IF S = {} THEN <<>>
  ELSE LET x == CHOOSE y \in S : TRUE IN <<x>> \o Listed(S \ {x})

\* the characters of the string s, one string each: what "for y in s" runs
\* over
Chars(s) == [i \in 1..Len(s) |-> SubSeq(s, i, i)]

\* isinstance(x, Iterable) for a value that is no dict: a list, a tuple, a
\* set, a string and an iterator are iterable, None and an int are not
IsIterable(x) == x.t \in {"list", "tuple", "set", "id", "iterator"}

\* what the first "for y in x" runs over, for an iterable x
Elements(x) ==
  IF x.t = "set" THEN x.order
  ELSE IF x.t = "id"
  THEN [i \in 1..Len(Chars(x.v)) |-> IdV(Chars(x.v)[i])]
  ELSE x.v

\* what a later "for y in x" runs over, the first having run to its end: an
\* iterator has nothing left to hand out
Again(x) == IF x.t = "iterator" THEN <<>> ELSE Elements(x)

\* "for identifier, attributes in nodes.items(): self.add_node(identifier,
\* **attributes)" when replace is FALSE, "for identifier in nodes:
\* self.add_node(identifier, replace=True)" when it is TRUE
RECURSIVE AddNodes(_, _, _)
AddNodes(g, items, replace) ==
  IF items = <<>> THEN Res(g, "", NoId)
  ELSE LET it == Head(items)
       IN Once({IF r.err # "" THEN r ELSE AddNodes(r.g, Tail(items), replace) :
                r \in {IF replace THEN add_node(g, it.v, TRUE, EmptyDict)
                       ELSE add_node_keywords(g, it[1].v, it[2].v)}})

\* Graph._nodes_validation (graph.py 81-107)
nodes_validation(g, nodes) ==
  IF nodes.t = "None" THEN Res(g, "", NoId)
  ELSE IF nodes.t = "dict"
  THEN IF ~\A it \in Members(nodes.items) : IsIdentifier(it[1])
       THEN Res(g, "WrongTypeOfNodeIdentifier", NoId)
       ELSE IF ~\A it \in Members(nodes.items) : it[2].t = "dict"
       THEN Res(g, "WrongTypeOfNodeAttributes", NoId)
       ELSE AddNodes(g, nodes.items, FALSE)
  ELSE IF IsIterable(nodes)
  THEN IF ~\A x \in Members(Elements(nodes)) : IsIdentifier(x)
       THEN Res(g, "WrongTypeOfNodeIdentifier", NoId)
       ELSE AddNodes(g, Again(nodes), TRUE)
  ELSE Res(g, "WrongTypeOfNodes", NoId)

\* the nodes setter (graph.py 70-74): "self.__nodes = {}", then the validation
nodes_setter(g, new_nodes) ==
  nodes_validation([g EXCEPT !.nodes = EmptyDict], new_nodes)

\* "for identifier, attributes in multiples.items(): self.add_edge(...)" with
\* EdgeAlreadyExistsException raised again as DuplicationInEdgeIdentifiers
RECURSIVE LoadMultiples(_, _, _, _)
LoadMultiples(g, node_l, node_r, items) ==
  IF items = <<>> THEN Res(g, "", NoId)
  ELSE LET it == Head(items)
       IN Once({IF r.err = "EdgeAlreadyExists"
                THEN Res(r.g, "DuplicationInEdgeIdentifiers", NoId)
                ELSE IF r.err # "" THEN r
                ELSE LoadMultiples(r.g, node_l, node_r, Tail(items)) :
                r \in {add_edge_keywords(g, node_l, node_r, it[1].v, TRUE, FALSE,
                                         it[2].v)}})

\* the loop over edges.items() (graph.py 182-197); gen holds the identifiers
\* that generate_identifier() returns, in the order of the calls
RECURSIVE LoadCouples(_, _, _)
LoadCouples(g, items, gen) ==
  IF items = <<>> THEN Res(g, "", NoId)
  ELSE LET node_l == Head(items)[1].v[1].v
           node_r == Head(items)[1].v[2].v
           multiples == Head(items)[2].items
       IN IF Len(multiples) = 0
          THEN Once({IF r.err # "" THEN r
                     ELSE LoadCouples(r.g, Tail(items), Tail(gen)) :
                     r \in {add_edge(g, node_l, node_r, Head(gen), FALSE, TRUE, FALSE,
                                     EmptyDict)}})
          ELSE Once({IF r.err # "" THEN r ELSE LoadCouples(r.g, Tail(items), gen) :
                     r \in {LoadMultiples(g, node_l, node_r, multiples)}})

\* the loop over a sequence of couples (graph.py 202-206)
RECURSIVE LoadList(_, _, _)
LoadList(g, couples, gen) ==
  IF couples = <<>> THEN Res(g, "", NoId)
  ELSE LET c == Head(couples).v
       IN Once({IF r.err # "" THEN r ELSE LoadList(r.g, Tail(couples), Tail(gen)) :
                r \in {add_edge(g, c[1].v, c[2].v, Head(gen), FALSE, TRUE, FALSE,
                                EmptyDict)}})

\* the three checks that a mapping and a sequence of couples share: each is
\* a loop of its own over the input, couples being what the first loop runs
\* over and again what the later ones do
CoupleChecks(couples, again) ==
  IF ~\A c \in Members(couples) : c.t = "tuple" THEN "WrongTypeOfCouple"
  ELSE IF ~\A c \in Members(again) : Len(c.v) = 2 THEN "WrongLengthOfCouple"
  ELSE IF ~\A c \in Members(again) : IsIdentifier(c.v[1]) /\ IsIdentifier(c.v[2])
  THEN "WrongTypeOfNodeIdentifierInCouple"
  ELSE ""

\* the four checks on the values of a mapping (graph.py 178-181)
MultiplesChecks(items) ==
  IF ~\A it \in Members(items) : it[2].t = "dict" THEN "WrongTypeOfMultipleEdges"
  ELSE IF ~\A it \in Members(items) : Len(it[2].items) > 0
  THEN "WrongLengthOfMultipleEdges"
  ELSE IF ~\A it \in Members(items) : \A e \in Members(it[2].items) : IsIdentifier(e[1])
  THEN "WrongTypeOfEdgeIdentifier"
  ELSE IF ~\A it \in Members(items) : \A e \in Members(it[2].items) : e[2].t = "dict"
  THEN "WrongTypeOfEdgeAttributes"
  ELSE ""

\* Graph._edges_validation (graph.py 125-208)
edges_validation(g, edges, gen) ==
  IF edges.t = "None" THEN Res(g, "", NoId)
  ELSE IF edges.t = "dict"
  THEN LET keys == [i \in 1..Len(edges.items) |-> edges.items[i][1]]
           e1 == CoupleChecks(keys, keys)
           e2 == MultiplesChecks(edges.items)
       IN IF e1 # "" THEN Res(g, e1, NoId)
          ELSE IF e2 # "" THEN Res(g, e2, NoId)
          ELSE LoadCouples(g, edges.items, gen)
  ELSE IF IsIterable(edges)
  THEN LET e1 == CoupleChecks(Elements(edges), Again(edges))
       IN IF e1 # "" THEN Res(g, e1, NoId) ELSE LoadList(g, Again(edges), gen)
  ELSE Res(g, "WrongTypeOfEdges", NoId)

\* the edges setter (graph.py 114-118): "self.__edges = {}", then the validation
edges_setter(g, new_edges, gen) ==
  edges_validation([g EXCEPT !.edges = EmptyDict, !.order = <<>>, !.inner = EmptyDict], new_edges, gen)

\* Graph.__init__ on a fresh object (graph.py 31-36)
construct(new_nodes, new_edges, gen) ==
  Once({IF n.err # "" THEN n
        ELSE Once({IF e.err # "" THEN e ELSE Recalculate(e.g, TRUE) :
                   e \in {edges_setter(n.g, new_edges, gen)}}) :
        n \in {nodes_setter(EmptyGraph, new_nodes)}})

\* generate_identifier(): an identifier no node and no couple of the graph uses
FreshNodeIds(g) ==
  {n \in NodeIds : n \notin DOMAIN g.nodes
                   /\ \A c \in DOMAIN g.edges : c[1] # n /\ c[2] # n}
\* generate_identifier(): an identifier no edge of the graph uses
FreshEdgeIds(g) ==
  {e \in EdgeIds : \A c \in DOMAIN g.edges : e \notin DOMAIN g.edges[c]}

\* ------------------------------------------ the generator of find_loops
\* ------------------------------------------- the dict of the edge store
\* Graph.__edges is a dict, and "for ... in self.edges" walks the slots of
\* its table (CPython 3.11, Objects/dictobject.c). entries are the slots
\* filled so far, in the order they were filled, with Hole where the couple
\* has been deleted (del leaves the slot where it is); usable is the number
\* of slots that can still be filled before the table is rebuilt.
Hole == <<>>
Table(entries, usable) == [entries |-> entries, usable |-> usable]

\* the dict {}: no slot, and none to fill
EmptyTable == Table(<<>>, 0)

\* the couples of the slots, in order: what the dict holds
Compact(entries) == SelectSeq(entries, LAMBDA c : c # Hole)

\* the number of couples of the dict (ma_used)
Used(t) == Len(Compact(t.entries))

\* n | 8 (PyDict_MINSIZE is 8)
BitOr8(n) == IF (n \div 8) % 2 = 1 THEN n ELSE n + 8

\* calculate_log2_keysize: the least power of two from size on that is not
\* below minsize
RECURSIVE KeySize(_, _)
KeySize(size, minsize) ==
  IF size >= minsize THEN size ELSE KeySize(2 * size, minsize)

\* insertion_resize: the table is rebuilt for three times the couples held
\* (GROWTH_RATE), the slots of deleted couples are dropped and the others
\* move up; two thirds of the new size can be filled (USABLE_FRACTION)
Resized(t) ==
  LET size == KeySize(8, BitOr8(3 * Used(t)))
  IN Table(Compact(t.entries), (2 * size) \div 3 - Used(t))

\* self.edges[c] = ... for a couple c the dict does not hold: the table is
\* rebuilt first when no slot can be filled, then c takes the next slot
Insert(t, c) ==
  IF c \in Members(t.entries) THEN t
  ELSE LET room == IF t.usable <= 0 THEN Resized(t) ELSE t
       IN Table(Append(room.entries, c), room.usable - 1)

\* del self.edges[c]
Delete(t, c) ==
  Table([i \in DOMAIN t.entries |-> IF t.entries[i] = c THEN Hole ELSE t.entries[i]],
        t.usable)

RECURSIVE Inserts(_, _)
Inserts(t, cs) ==
  IF cs = <<>> THEN t ELSE Inserts(Insert(t, Head(cs)), Tail(cs))

RECURSIVE Deletes(_, _)
Deletes(t, cs) ==
  IF cs = <<>> THEN t ELSE Deletes(Delete(t, Head(cs)), Tail(cs))

\* the calls that put a new dict in the place of the edge store: the edges
\* setter and clear_edges (graph.py 117, 418)
Rebinding == {"set_edges", "clear_edges"}

\* the dict of the edge store after the call op has taken the couples from
\* ord to ord2: a new dict filled with ord2 when op puts a new dict in its
\* place; else the same dict, in which del_edge and del_node have deleted
\* (graph.py 406, 280-283) and add_edge has inserted (graph.py 355)
Stored(t, op, ord, ord2) ==
  IF op \in Rebinding THEN Inserts(EmptyTable, ord2)
  ELSE Inserts(Deletes(t, SelectSeq(ord, LAMBDA c : c \notin Members(ord2))),
               SelectSeq(ord2, LAMBDA c : c \notin Members(ord)))

\* ------------------------------------------------- the find_loops generator
\* Graph.find_loops is a generator function (graph.py 501-505): the call runs
\* no line of its body, and the object it hands back runs the body from one
\* yield to the next at each next(). Between two next() it is suspended
\* inside "for (node_l, node_r) in self.edges", on an iterator of the dict
\* that self.edges was when the loop began.
\*   st       "none" (no find_loops() yet), "created" (no line has run),
\*            "suspended" (at the yield), "finished" (returned or raised)
\*   dict     the dict the iterator walks, as it is now
\*   pos      the number of slots of the table the iterator has passed
\*   used     the number of couples of the dict when the loop began
\*   left     the number of couples the iterator may still hand out
\*   bound    the dict is still the edge store (the edges setter and
\*            clear_edges put a new dict in its place: graph.py 117, 418)
\*   yielded  the couples yielded so far
Gen(st, dict, pos, used, left, bound, yielded) ==
  [st |-> st, dict |-> dict, pos |-> pos, used |-> used, left |-> left,
   bound |-> bound, yielded |-> yielded]

NoGenerator == Gen("none", EmptyTable, 0, 0, 0, FALSE, <<>>)
Created == Gen("created", EmptyTable, 0, 0, 0, FALSE, <<>>)
Finished == Gen("finished", EmptyTable, 0, 0, 0, FALSE, <<>>)

\* the first next(): "for ... in self.edges" takes an iterator of the dict
\* the edge store is at that moment
Begin(t) == Gen("suspended", t, 0, Used(t), Used(t), TRUE, <<>>)

\* what the call op, which leaves the edge store as the dict t2, does to a
\* suspended generator: the iterator keeps its place in the table whatever
\* is deleted, inserted or rebuilt under it, and it keeps the old dict when
\* the edge store becomes a new one
Track(it, op, t2) ==
  IF it.st # "suspended" \/ ~it.bound THEN it
  ELSE IF op \in Rebinding THEN [it EXCEPT !.bound = FALSE]
  ELSE [it EXCEPT !.dict = t2]

\* the outcome of one step of the loop
Step(kind, couple, pos, left) ==
  [kind |-> kind, couple |-> couple, pos |-> pos, left |-> left]

\* the body of find_loops from where it stands up to its next yield: the
\* dict iterator goes on from slot pos, passes the holes and hands out the
\* couples until one has equal endpoints; it stops at the end of the slots,
\* and it raises RuntimeError (dictionary keys changed during iteration)
\* when it finds a couple after having handed out as many as the dict held
\* at the start. After a rebuild a couple may stand in a slot the iterator
\* has already passed (it is not visited) or in one it has yet to pass
\* although it has been handed out (it is handed out again).
RECURSIVE Scan(_, _, _)
Scan(entries, pos, left) ==
  IF pos >= Len(entries) THEN Step("StopIteration", <<>>, pos, left)
  ELSE IF entries[pos + 1] = Hole THEN Scan(entries, pos + 1, left)
  ELSE IF left = 0 THEN Step("RuntimeError", <<>>, pos, left)
  ELSE IF entries[pos + 1][1] = entries[pos + 1][2]
  THEN Step("yield", entries[pos + 1], pos + 1, left - 1)
  ELSE Scan(entries, pos + 1, left - 1)

\* next() on the generator it, the edge store being the dict t: the dict
\* iterator first compares the size of its dict with the size at the start
\* (RuntimeError: dictionary changed size during iteration)
next(it, t) ==
  LET at == IF it.st = "created" THEN Begin(t) ELSE it
  IN IF it.st = "finished" THEN Step("StopIteration", <<>>, 0, 0)
     ELSE IF at.used # Used(at.dict) THEN Step("RuntimeError", <<>>, at.pos, at.left)
     ELSE Scan(at.dict.entries, at.pos, at.left)

\* ----------------------------------------------------------------- state
VARIABLES
  nodes,   \* Graph.__nodes: node identifier -> attribute dict
  edges,   \* Graph.__edges: couple -> (edge identifier -> attribute dict)
  order,   \* the insertion order of the couples of Graph.__edges
  last,    \* the latest call: the method called and the exception it raised
  calls,   \* the number of calls made so far
  out,     \* what the latest call handed back, when it was a projection
  eager,   \* the graph of a second object on which the batch specification
           \* makes every call with recalculation; the others leave it alone
  inner,   \* the insertion order of the edge identifiers of each couple
  generator, \* the generator the latest find_loops() handed back
  table,   \* the dict that is Graph.__edges: its slots and its room
  heap     \* the list objects made so far: heap[r] is what list r holds

vars == <<nodes, edges, order, inner, last, calls, out, eager, generator, table, heap>>

Self == Graph(nodes, edges, order, inner)

\* the call of method op leaves the graph res.g, raises res.err ("" when it
\* returns), hands back value and leaves the list objects as objects
Return(op, res, value, objects) ==
  /\ calls < MaxCalls
  /\ calls' = calls + 1
  /\ last' = [op |-> op, err |-> res.err]
  /\ nodes' = res.g.nodes
  /\ edges' = res.g.edges
  /\ order' = res.g.order
  /\ inner' = res.g.inner
  /\ out' = value
  /\ eager' = eager
  /\ \E t2 \in {Stored(table, op, order, res.g.order)} :
       /\ table' = t2
       /\ generator' = Track(generator, op, t2)
  /\ heap' = objects

\* the call of method op leaves the graph res.g and raises res.err ("" when
\* it returns)
Finish(op, res) == Return(op, res, None, heap)

\* DirectedGraph(): both stores empty, then calc_degree and calc_neighbors
Init ==
  /\ nodes = EmptyDict
  /\ edges = EmptyDict
  /\ order = <<>>
  /\ inner = EmptyDict
  /\ last = [op |-> "init", err |-> ""]
  /\ calls = 0
  /\ out = None
  /\ eager = Self
  /\ generator = NoGenerator
  /\ table = EmptyTable
  /\ heap = <<>>

\* the number of edge identifiers stored under the couples cs of es
RECURSIVE SumLen(_, _)
SumLen(es, cs) ==
  IF cs = {} THEN 0
  ELSE LET c == CHOOSE x \in cs : TRUE
       IN Cardinality(DOMAIN es[c]) + SumLen(es, cs \ {c})

\* add_node(identifier, replace, **attributes); identifier = NoId draws a
\* generated identifier
AddNodeCall(identifier, replace, attributes) ==
  \E chosen \in (IF identifier = NoId THEN FreshNodeIds(Self) ELSE {identifier}) :
    Finish("add_node", add_node(Self, chosen, replace, attributes))

\* replace is read only when the node exists (graph.py 250-255): where it is
\* not read it is not varied, either value being the same step
AddNode ==
  /\ calls < MaxCalls
  /\ \E identifier \in NodeIds \cup {NoId}, attributes \in NodeAttrs :
       \E replace \in (IF identifier \in DOMAIN nodes THEN BOOLEAN ELSE {FALSE}) :
         AddNodeCall(identifier, replace, attributes)

\* del_node(identifier, recalculate_calculated_attributes)
DelNodeCall(identifier, recalc) ==
  Finish("del_node", del_node(Self, identifier, recalc))

DelNode ==
  /\ calls < MaxCalls
  /\ \E identifier \in NodeIds, recalc \in BOOLEAN : DelNodeCall(identifier, recalc)

ClearNodes == Finish("clear_nodes", clear_nodes(Self))

\* add_edge(node_l, node_r, identifier, replace, add_non_existent_incident_nodes,
\* recalculate_calculated_attributes, **attributes); identifier = NoId draws a
\* generated identifier
AddEdgeCall(node_l, node_r, identifier, replace, create, recalc, attributes) ==
  \E chosen \in (IF identifier = NoId THEN FreshEdgeIds(Self) ELSE {identifier}) :
    Finish("add_edge",
           add_edge(Self, node_l, node_r, chosen, replace, create, recalc, attributes))

\* the edge (node_l, node_r, identifier) is stored: the test of graph.py 350-351
EdgeExists(node_l, node_r, identifier) ==
  /\ <<node_l, node_r>> \in DOMAIN edges
  /\ identifier \in DOMAIN edges[<<node_l, node_r>>]

\* replace is read only when the edge exists (graph.py 350-353), and
\* add_non_existent_incident_nodes changes nothing when both endpoints have a
\* record (graph.py 359-367): a flag that cannot alter the step is not varied
AddEdge ==
  /\ calls < MaxCalls
  /\ \E node_l \in NodeIds, node_r \in NodeIds, identifier \in EdgeIds \cup {NoId},
        recalc \in BOOLEAN, attributes \in EdgeAttrs :
       \E replace \in (IF EdgeExists(node_l, node_r, identifier) THEN BOOLEAN ELSE {FALSE}),
          create \in (IF {node_l, node_r} \subseteq DOMAIN nodes THEN {TRUE} ELSE BOOLEAN) :
         AddEdgeCall(node_l, node_r, identifier, replace, create, recalc, attributes)

\* del_edge(node_l, node_r, identifier, recalculate_calculated_attributes)
DelEdgeCall(node_l, node_r, identifier, recalc) ==
  Finish("del_edge", del_edge(Self, node_l, node_r, identifier, recalc))

DelEdge ==
  /\ calls < MaxCalls
  /\ \E node_l \in NodeIds, node_r \in NodeIds, identifier \in EdgeIds \cup {NoId},
        recalc \in BOOLEAN :
       DelEdgeCall(node_l, node_r, identifier, recalc)

ClearEdges == Finish("clear_edges", clear_edges(Self))

CalcDegree == Finish("calc_degree", calc_degree(Self))

CalcNeighbors == Finish("calc_neighbors", calc_neighbors(Self))

\* clear_degree() and clear_neighbors() called on their own (graph.py 479-482,
\* 492-495)
ClearDegree == Finish("clear_degree", Res(clear_degree(Self), "", NoId))

ClearNeighbors == Finish("clear_neighbors", Res(clear_neighbors(Self), "", NoId))

Next ==
  \/ AddNode
  \/ DelNode
  \/ ClearNodes
  \/ AddEdge
  \/ DelEdge
  \/ ClearEdges
  \/ CalcDegree
  \/ CalcNeighbors
  \/ ClearDegree
  \/ ClearNeighbors

Spec == Init /\ [][Next]_vars

\* ------------------------------------------------- the whole public surface
\* the call of method op leaves the graph res.g, raises res.err ("" when it
\* returns) and hands back value
Answer(op, res, value) == Return(op, res, value, heap)

\* get_subgraph(selected_nodes, fullmatch): the subgraph is handed back with
\* the arguments of the call
GetSubgraph ==
  /\ calls < MaxCalls
  /\ \E selected_nodes \in SUBSET NodeIds, fullmatch \in BOOLEAN :
       \E res \in {get_subgraph(Self, selected_nodes, fullmatch)} :
          Answer("get_subgraph", res,
                 IF res.err # ""
                 THEN [t |-> "no subgraph", selected_nodes |-> selected_nodes,
                       fullmatch |-> fullmatch]
                 ELSE [t |-> "subgraph", selected_nodes |-> selected_nodes,
                       fullmatch |-> fullmatch,
                       nodes |-> res.ret.nodes, edges |-> res.ret.edges,
                       order |-> res.ret.order, inner |-> res.ret.inner])

\* describe()
Describe ==
  /\ calls < MaxCalls
  /\ \E res \in {describe(Self)} :
       Answer("describe", res,
              IF res.err # "" THEN None ELSE [t |-> "description", v |-> res.ret])

\* list(find_loops()): the generator is made and run to its end in one
\* call, and the caller keeps the list
ListLoops ==
  /\ calls < MaxCalls
  /\ Answer("list_find_loops", Res(Self, "", NoId),
            [t |-> "loops", v |-> find_loops(Self)])

\* find_loops(): the caller is handed a generator of which no line has run
FindLoops ==
  /\ calls < MaxCalls
  /\ calls' = calls + 1
  /\ last' = [op |-> "find_loops", err |-> ""]
  /\ out' = None
  /\ generator' = Created
  /\ UNCHANGED <<nodes, edges, order, inner, eager, table, heap>>

\* next() on the generator held: it yields a couple, or it ends with
\* StopIteration or RuntimeError and is finished; when it ends, out tells
\* what it has yielded in all; next() on a finished generator ends with
\* StopIteration again
NextLoop ==
  /\ generator.st # "none"
  /\ \E at \in {IF generator.st = "created" THEN Begin(table) ELSE generator},
        step \in {next(generator, table)} :
       IF step.kind = "yield"
       THEN /\ last' = [op |-> "next", err |-> ""]
            /\ out' = [t |-> "yielded", v |-> step.couple]
            /\ generator' = [at EXCEPT !.pos = step.pos, !.left = step.left,
                                       !.yielded = Append(at.yielded, step.couple)]
       ELSE /\ last' = [op |-> "next", err |-> step.kind]
            /\ out' = IF generator.st = "finished" THEN [t |-> "exhausted"]
                      ELSE [t |-> "ended", v |-> at.yielded]
            /\ generator' = Finished
  /\ UNCHANGED <<nodes, edges, order, inner, calls, eager, table, heap>>

\* what callers assign to the nodes property: None, an int, a list holding
\* None, a mapping to an int, a mapping to attributes, two lists, a tuple
\* holding None, a set, a string, three mappings whose attributes are named
\* as a parameter of add_node or as a keyword get_subgraph passes, an
\* iterator, a mapping whose second record holds the key self, and a string
\* of two characters
NodesInputs ==
  << None,
     IntV(5),
     ListV(<<None>>),
     MapV(<< <<IdV("a"), IntV(1)>> >>),
     MapV(<< <<IdV("a"), AttrsV([color |-> IntV(1)])>> >>),
     ListV(<<IdV("a"), IdV("b")>>),
     ListV(<<IdV("b"), IdV("b")>>),
     TupleV(<<IdV("a"), None>>),
     HashSetV(<<IdV("a"), IdV("b")>>),
     IdV("b"),
     MapV(<< <<IdV("a"), AttrsV([replace |-> BoolV(TRUE), color |-> IntV(1)])>> >>),
     MapV(<< <<IdV("a"), AttrsV([identifier |-> IntV(1)])>> >>),
     MapV(<< <<IdV("b"),
               AttrsV([recalculate_calculated_attributes |-> BoolV(TRUE)])>> >>),
     IterV(<<IdV("a")>>),
     MapV(<< <<IdV("a"), AttrsV([color |-> IntV(1)])>>,
             <<IdV("b"), AttrsV([self |-> IntV(1)])>> >>),
     IdV("ab") >>

\* the couple (a, b) as callers write it, and the mapping with one edge e1
AB == TupleV(<<IdV("a"), IdV("b")>>)
OneEdge == MapV(<< <<IdV("e1"), AttrsV(EmptyDict)>> >>)

\* what callers assign to the edges property: None, an int, one input that
\* fails each check of the validation in turn, a mapping, a list, a tuple
\* and a set of couples in one order, a couple and a string in the place of
\* the couples,
\* two mappings whose attributes are named as a parameter of add_edge, an
\* iterator over a couple of the wrong length, the set of couples in its
\* other order, and a mapping whose second couple holds the key self
EdgesInputs ==
  << None,
     IntV(5),
     MapV(<< <<IdV("a"), OneEdge>> >>),
     MapV(<< <<TupleV(<<IdV("a")>>), OneEdge>> >>),
     ListV(<< TupleV(<<None, IdV("a")>>) >>),
     MapV(<< <<AB, IntV(1)>> >>),
     MapV(<< <<AB, MapV(<<>>)>> >>),
     MapV(<< <<AB, MapV(<< <<None, AttrsV(EmptyDict)>> >>)>> >>),
     MapV(<< <<AB, MapV(<< <<IdV("e1"), IntV(1)>> >>)>> >>),
     MapV(<< <<AB, MapV(<< <<IdV("e1"), AttrsV([weight |-> IntV(1)])>>,
                           <<IdV("e2"), AttrsV(EmptyDict)>> >>)>>,
             <<TupleV(<<IdV("b"), IdV("b")>>), OneEdge>> >>),
     ListV(<<AB, AB>>),
     TupleV(<<AB>>),
     HashSetV(<<AB, TupleV(<<IdV("b"), IdV("b")>>)>>),
     AB,
     IdV("b"),
     MapV(<< <<AB, MapV(<< <<IdV("e1"), AttrsV([replace |-> BoolV(TRUE)])>> >>)>> >>),
     MapV(<< <<AB, MapV(<< <<IdV("e1"), AttrsV([node_l |-> IntV(1)])>> >>)>> >>),
     IterV(<< TupleV(<<IdV("a")>>) >>),
     HashSetV(<<TupleV(<<IdV("b"), IdV("b")>>), AB>>),
     MapV(<< <<AB, OneEdge>>,
             <<TupleV(<<IdV("b"), IdV("b")>>),
               MapV(<< <<IdV("e2"), AttrsV([self |-> IntV(1)])>> >>)>> >>) >>
\* the input of EdgesInputs with an empty inner mapping
EmptyInner == EdgesInputs[7]

\* the identifiers generate_identifier() returns during one load: one for
\* each couple the loop over a sequence of couples reaches
Generated(input) ==
  IF IsIterable(input) /\ Again(input) # <<>>
  THEN {s \in [1..2 -> EdgeIds] : s[1] # s[2]}
  ELSE {<<>>}

\* self.nodes = input
SetNodesCall(input) == Finish("set_nodes", nodes_setter(Self, input))

SetNodes ==
  /\ calls < MaxCalls
  /\ \E i \in 1..Len(NodesInputs) : SetNodesCall(NodesInputs[i])

\* self.edges = input
SetEdgesCall(input, gen) == Finish("set_edges", edges_setter(Self, input, gen))

SetEdges ==
  /\ calls < MaxCalls
  /\ \E i \in 1..Len(EdgesInputs) :
       \E gen \in Generated(EdgesInputs[i]) : SetEdgesCall(EdgesInputs[i], gen)

\* g.nodes as a caller passes it on: identifier -> attributes
NodesOf(g) ==
  LET ids == Listed(DOMAIN g.nodes)
  IN MapV([i \in 1..Len(ids) |-> <<IdV(ids[i]), AttrsV(g.nodes[ids[i]])>>])

\* g.edges[couple] as a caller passes it on: identifier -> attributes, in
\* the insertion order ids
MultiplesOf(multiples, ids) ==
  MapV([i \in 1..Len(ids) |-> <<IdV(ids[i]), AttrsV(multiples[ids[i]])>>])

\* g.edges as a caller passes it on: couple -> multiples, in insertion order
EdgesOf(g) ==
  MapV([i \in 1..Len(g.order) |->
          <<TupleV(<<IdV(g.order[i][1]), IdV(g.order[i][2])>>),
            MultiplesOf(g.edges[g.order[i]], g.inner[g.order[i]])>>])

\* a list held by an attribute is an object of its own: the attribute holds
\* a reference to it, and heap[r] is what the list r holds
ObjV(r) == [t |-> "ref", v |-> r]

\* the value a caller reads where x is stored: a list by what it holds
Held(x) == IF x.t = "ref" THEN ListV(heap[x.v]) ELSE x

\* type(x): a graph of the model is a DirectedGraph, any other value has the
\* type of its tag
type(x) == IF "t" \in DOMAIN x THEN x.t ELSE "DirectedGraph"

\* bool is a subclass of int: True is the number 1 and False the number 0
IsNumber(x) == x.t \in {"int", "bool"}
Number(x) == IF x.t = "bool" THEN (IF x.v THEN 1 ELSE 0) ELSE x.v

\* x == y for None, numbers, identifiers and sets of identifiers
ScalarEq(x, y) ==
  IF IsNumber(x) /\ IsNumber(y) THEN Number(x) = Number(y)
  ELSE x.t = y.t /\ x = y

\* x == y for two attribute values: two lists are equal when they hold
\* equal items in the same places
ValueEq(x, y) ==
  LET a == Held(x)
      b == Held(y)
  IN IF a.t = "list" /\ b.t = "list"
     THEN /\ Len(a.v) = Len(b.v)
          /\ \A i \in 1..Len(a.v) : ScalarEq(a.v[i], b.v[i])
     ELSE ScalarEq(a, b)

\* d == e for two attribute dicts
DictEq(d, e) ==
  /\ DOMAIN d = DOMAIN e
  /\ \A k \in DOMAIN d : ValueEq(d[k], e[k])

\* Graph.__eq__ (graph.py 210-213): type(self) is type(other) and
\* self.nodes == other.nodes and self.edges == other.edges, the dicts being
\* compared key by key whatever the order of their keys
eq(self, other) ==
  /\ type(self) = type(other)
  /\ DOMAIN self.nodes = DOMAIN other.nodes
  /\ \A n \in DOMAIN self.nodes : DictEq(self.nodes[n], other.nodes[n])
  /\ DOMAIN self.edges = DOMAIN other.edges
  /\ \A c \in DOMAIN self.edges :
       /\ DOMAIN self.edges[c] = DOMAIN other.edges[c]
       /\ \A e \in DOMAIN self.edges[c] : DictEq(self.edges[c][e], other.edges[c][e])

\* h = DirectedGraph(nodes=self.nodes, edges=self.edges), then h == self:
\* a mapping of edges draws no generated identifier unless a couple is empty,
\* and the length check turns every empty couple down before that
Rebuild ==
  /\ calls < MaxCalls
  /\ \E new_nodes \in {NodesOf(Self)}, new_edges \in {EdgesOf(Self)} :
       \E res \in {construct(new_nodes, new_edges, <<>>)} :
         Answer("rebuild", Res(Self, res.err, NoId),
                IF res.err # "" THEN [t |-> "no graph"]
                ELSE [t |-> "graph", nodes |-> res.g.nodes, edges |-> res.g.edges,
                      equal |-> eq(res.g, Self)])

\* what a caller compares the graph with: None, an int, the graph itself,
\* and a graph whose node a holds color=True, color=1 or color=2
Others ==
  << None,
     IntV(5),
     Self,
     construct(MapV(<< <<IdV("a"), AttrsV([color |-> BoolV(TRUE)])>> >>), None, <<>>).g,
     construct(MapV(<< <<IdV("a"), AttrsV([color |-> IntV(1)])>> >>), None, <<>>).g,
     construct(MapV(<< <<IdV("a"), AttrsV([color |-> IntV(2)])>> >>), None, <<>>).g >>

\* self == other
Equals ==
  /\ calls < MaxCalls
  /\ \E i \in 1..Len(Others) :
       Answer("eq", Res(Self, "", NoId),
              [t |-> "equal", other |-> i, v |-> eq(Self, Others[i])])

\* the decimal digits of n
str(n) == ToString(n)

\* Graph.__repr__ (graph.py 38-63): describe(), then the message made of the
\* type with its prefixes, the two numbers and the two nouns, each with an s
\* when its number is above 1
repr(g) ==
  Once({IF r.err # "" THEN r
        ELSE LET description == r.ret
                 multi == IF description.multi_graph
                          THEN "Multi " \o description.type ELSE description.type
                 pseudo == IF description.pseudo_graph
                           THEN "Pseudo " \o multi ELSE multi
                 graph_type == IF description.complete_graph
                               THEN "Complete " \o pseudo ELSE pseudo
                 nodes_number == description.number_of_nodes
                 nodes_ending == IF nodes_number > 1 THEN "nodes" ELSE "node"
                 edges_number == description.number_of_edges
                 edges_ending == IF edges_number > 1 THEN "edges" ELSE "edge"
             IN Res(r.g, "",
                    graph_type \o " with " \o str(nodes_number) \o " " \o nodes_ending
                    \o " and " \o str(edges_number) \o " " \o edges_ending) :
        r \in {describe(g)}})

\* repr(self)
Repr ==
  /\ calls < MaxCalls
  /\ \E res \in {repr(Self)} :
       Answer("repr", res,
              IF res.err # "" THEN None ELSE [t |-> "message", v |-> res.ret])

NextAPI ==
  \/ Next
  \/ GetSubgraph
  \/ Describe
  \/ ListLoops
  \/ FindLoops
  \/ NextLoop
  \/ SetNodes
  \/ SetEdges
  \/ Rebuild
  \/ Equals
  \/ Repr

SpecAPI == Init /\ [][NextAPI]_vars

\* ------------------------------------------------- one batch, run twice
\* Two objects are built from the same arguments and receive the same calls:
\* this one with recalculate_calculated_attributes=False on every call, the
\* other (eager) with recalculate_calculated_attributes=True on every call.
\* The arguments are those for which the constructor draws no identifier
\* (None and mappings): from a sequence of couples each construction would
\* draw identifiers of its own, and the two objects would not start equal.
InitBatch ==
  /\ \E i \in 1..Len(NodesInputs), j \in 1..Len(EdgesInputs) :
       /\ Generated(EdgesInputs[j]) = {<<>>}
       /\ \E first \in {construct(NodesInputs[i], EdgesInputs[j], <<>>)},
             second \in {construct(NodesInputs[i], EdgesInputs[j], <<>>)} :
            /\ first.err = ""
            /\ second.err = ""
            /\ nodes = first.g.nodes
            /\ edges = first.g.edges
            /\ order = first.g.order
            /\ inner = first.g.inner
            /\ table = Inserts(EmptyTable, first.g.order)
            /\ eager = second.g
  /\ last = [op |-> "init", err |-> ""]
  /\ calls = 0
  /\ out = None
  /\ generator = NoGenerator
  /\ heap = <<>>

\* the call returned on both objects: deferred is its result here, immediate
\* its result on the other object
Both(op, deferred, immediate) ==
  /\ deferred.err = ""
  /\ immediate.err = ""
  /\ calls' = calls + 1
  /\ last' = [op |-> op, err |-> ""]
  /\ nodes' = deferred.g.nodes
  /\ edges' = deferred.g.edges
  /\ order' = deferred.g.order
  /\ inner' = deferred.g.inner
  /\ out' = None
  /\ eager' = immediate.g
  /\ \E t2 \in {Stored(table, op, order, deferred.g.order)} :
       /\ table' = t2
       /\ generator' = Track(generator, op, t2)
  /\ heap' = heap

BatchAddEdge ==
  /\ calls < MaxCalls
  /\ \E node_l \in NodeIds, node_r \in NodeIds, identifier \in EdgeIds,
        replace \in BOOLEAN, create \in BOOLEAN, attributes \in EdgeAttrs :
       \E deferred \in {add_edge(Self, node_l, node_r, identifier, replace, create,
                                 FALSE, attributes)},
          immediate \in {add_edge(eager, node_l, node_r, identifier, replace, create,
                                  TRUE, attributes)} :
         Both("add_edge", deferred, immediate)

BatchDelEdge ==
  /\ calls < MaxCalls
  /\ \E node_l \in NodeIds, node_r \in NodeIds, identifier \in EdgeIds \cup {NoId} :
       \E deferred \in {del_edge(Self, node_l, node_r, identifier, FALSE)},
          immediate \in {del_edge(eager, node_l, node_r, identifier, TRUE)} :
         Both("del_edge", deferred, immediate)

BatchDelNode ==
  /\ calls < MaxCalls
  /\ \E identifier \in NodeIds :
       \E deferred \in {del_node(Self, identifier, FALSE)},
          immediate \in {del_node(eager, identifier, TRUE)} :
         Both("del_node", deferred, immediate)

NextBatch ==
  \/ BatchAddEdge
  \/ BatchDelEdge
  \/ BatchDelNode

SpecBatch == InitBatch /\ [][NextBatch]_vars

\* --------------------------------------- attributes that hold a list object
\* A caller may store a list as an attribute. The calls below pass a new
\* list [1]; get_subgraph hands the attributes on with ** (graph.py 456-469),
\* which makes a new dict of the same values: the dict of the subgraph is
\* its own, the list it holds is the list of the graph.
NewList == <<IntV(1)>>

\* add_node(identifier, replace, labels=[1])
SharedAddNode ==
  /\ calls < MaxCalls
  /\ \E identifier \in NodeIds, replace \in BOOLEAN :
       Return("add_node",
              add_node(Self, identifier, replace, [labels |-> ObjV(Len(heap) + 1)]),
              None, Append(heap, NewList))

\* add_edge(node_l, node_r, identifier, tags=[1])
SharedAddEdge ==
  /\ calls < MaxCalls
  /\ \E node_l \in NodeIds, node_r \in NodeIds, identifier \in EdgeIds :
       Return("add_edge",
              add_edge(Self, node_l, node_r, identifier, FALSE, TRUE, TRUE,
                       [tags |-> ObjV(Len(heap) + 1)]),
              None, Append(heap, NewList))

\* the lists held by the attributes of d
ListsOf(d) == {d[k].v : k \in {j \in DOMAIN d : d[j].t = "ref"}}

\* the lists held by the nodes and the edges of the subgraph handed back
SubLists ==
  UNION ({ListsOf(out.nodes[n]) : n \in DOMAIN out.nodes}
         \cup UNION {{ListsOf(out.edges[c][e]) : e \in DOMAIN out.edges[c]} :
                     c \in DOMAIN out.edges})

\* the caller changes the subgraph s that get_subgraph handed back, and
\* makes no call on the graph itself
OnSubgraph(op, err, s, objects) ==
  /\ out.t = "subgraph"
  /\ last' = [op |-> op, err |-> err]
  /\ out' = s
  /\ heap' = objects
  /\ UNCHANGED <<nodes, edges, order, inner, calls, eager, generator, table>>

\* s.nodes[n]["labels"].append(2), s.edges[c][e]["tags"].append(2)
SubAppend ==
  /\ out.t = "subgraph"
  /\ \E r \in SubLists :
       /\ Len(heap[r]) < MaxItems
       /\ OnSubgraph("sub_append", "", out, [heap EXCEPT ![r] = Append(@, IntV(2))])

\* s.nodes[n]["labels"] = 2
SubSetItem ==
  /\ out.t = "subgraph"
  /\ \E n \in DOMAIN out.nodes :
       OnSubgraph("sub_setitem", "",
                  [out EXCEPT !.nodes[n] = Put(@, "labels", IntV(2))], heap)

\* s.del_edge(node_l, node_r)
SubDelEdge ==
  /\ out.t = "subgraph"
  /\ \E node_l \in NodeIds, node_r \in NodeIds :
       \E res \in {del_edge(Graph(out.nodes, out.edges, out.order, out.inner),
                              node_l, node_r, NoId, TRUE)} :
         OnSubgraph("sub_del_edge", res.err,
                    [out EXCEPT !.nodes = res.g.nodes, !.edges = res.g.edges,
                                !.order = res.g.order, !.inner = res.g.inner],
                    heap)

NextShared ==
  \/ SharedAddNode
  \/ SharedAddEdge
  \/ DelEdge
  \/ GetSubgraph
  \/ Describe
  \/ SubAppend
  \/ SubSetItem
  \/ SubDelEdge

SpecShared == Init /\ [][NextShared]_vars

\* ---------------------------------------------------------------- claims
Returned == last.err = ""

\* the attributes of a node record other than the calculated ones
UserAttrs(d) == [k \in (DOMAIN d) \ Calculated |-> d[k]]

\* every endpoint of every couple of the edge store has a node record
EndpointsHaveNodes ==
  \A c \in DOMAIN edges : c[1] \in DOMAIN nodes /\ c[2] \in DOMAIN nodes

\* C1, as claimed: in every state reachable by any sequence of public
\* operations, add_edge with any flag values and clear_nodes included, every
\* endpoint of every couple in the edge store has a node record.
C1_EndpointsAlwaysHaveNodes == EndpointsHaveNodes

\* What every step of add_edge(l, r, ...) shows, whatever its flags: it has
\* raised EdgeAlreadyExists, or the couple (l, r) is stored and the other
\* couples are as they were. It narrows the calls a step is compared with.
AddEdgeStores(l, r) ==
  \/ last'.err = "EdgeAlreadyExists"
  \/ /\ <<l, r>> \in DOMAIN edges'
     /\ \A c \in (DOMAIN edges') \ {<<l, r>>} : c \in DOMAIN edges /\ edges'[c] = edges[c]

\* ... and the couple holds an edge (id, when one was given) with these attributes
AddEdgeHolds(l, r, id, attributes) ==
  \/ last'.err = "EdgeAlreadyExists"
  \/ \E e \in DOMAIN edges'[<<l, r>>] :
       (id # NoId => e = id) /\ edges'[<<l, r>>][e] = attributes

\* the step is a call of add_edge with add_non_existent_incident_nodes=True
AddEdgeCreating ==
  \E node_l \in NodeIds, node_r \in NodeIds :
    /\ AddEdgeStores(node_l, node_r)
    /\ \E identifier \in EdgeIds \cup {NoId}, attributes \in EdgeAttrs :
         /\ AddEdgeHolds(node_l, node_r, identifier, attributes)
         /\ \E replace \in BOOLEAN, recalc \in BOOLEAN :
              AddEdgeCall(node_l, node_r, identifier, replace, TRUE, recalc, attributes)

\* the step is a call other than clear_nodes and other than add_edge with
\* add_non_existent_incident_nodes=False
CallKeepingEndpoints ==
  /\ last'.op # "clear_nodes"
  /\ last'.op = "add_edge" => AddEdgeCreating

\* C1, amended: the constructed graph has a node record for every endpoint of
\* every couple, and every call other than clear_nodes and add_edge with
\* add_non_existent_incident_nodes=False keeps it so, whether it returns or raises.
C1_EndpointsKeptByCreatingCalls ==
  /\ EndpointsHaveNodes
  /\ [][EndpointsHaveNodes => (EndpointsHaveNodes' \/ ~CallKeepingEndpoints)]_vars

\* C1 witness: add_edge has returned, without recalculation, having created
\* the record of an endpoint, and every endpoint has a record
C1_Witness ==
  /\ last.op = "add_edge" /\ Returned
  /\ EndpointsHaveNodes
  /\ \E c \in DOMAIN edges : nodes[c[1]] = EmptyDict /\ c[1] # c[2]

\* the couples that have v as an endpoint, and the edges stored under couples
IncidentCouples(v) == {c \in DOMAIN edges : c[1] = v \/ c[2] = v}
EdgeCount(cs) == SumLen(edges, cs)

\* C2, as claimed: after calc_degree completes, degree(v) is the sum over the
\* couples that have v as an endpoint, each couple counted once, loop couples
\* included, of the number of edge identifiers under the couple.
C2_DegreeCountsEachCoupleOnce ==
  (last.op = "calc_degree" /\ Returned) =>
    \A v \in DOMAIN nodes : nodes[v]["degree"] = IntV(EdgeCount(IncidentCouples(v)))

\* C2, amended: after calc_degree completes, degree(v) is that sum with the
\* edges of the loop couple (v, v) counted twice.
C2_DegreeCountsLoopsTwice ==
  (last.op = "calc_degree" /\ Returned) =>
    \A v \in DOMAIN nodes :
      nodes[v]["degree"] =
        IntV(EdgeCount(IncidentCouples(v)) + EdgeCount({<<v, v>>} \cap DOMAIN edges))

\* C2 witness: calc_degree has returned on a graph with a loop couple and
\* another couple at the same node, both holding an edge
C2_Witness ==
  /\ last.op = "calc_degree" /\ Returned
  /\ \E v \in DOMAIN nodes, w \in DOMAIN nodes :
       /\ v # w
       /\ <<v, v>> \in DOMAIN edges /\ edges[<<v, v>>] # EmptyDict
       /\ <<v, w>> \in DOMAIN edges /\ edges[<<v, w>>] # EmptyDict

\* C3, as claimed: a call of add_node, add_edge, del_node or del_edge that
\* raises leaves the node store and the edge store as they were before it.
C3_FailedCallChangesNothing ==
  [][(last'.op \in {"add_node", "add_edge", "del_node", "del_edge"} /\ last'.err # "")
       => (nodes' = nodes /\ edges' = edges)]_vars

\* C4: after a successful del_node(v), v is absent from the node store, no
\* couple has v as its left or right endpoint, every couple that did not
\* contain v is still present with the same edge identifiers and attributes,
\* and all other node identifiers are still present.
C4_DelNodeRemovesNodeAndIncidentCouples ==
  [][(last'.op = "del_node" /\ last'.err = "") =>
      \A v \in NodeIds, recalc \in BOOLEAN :
        DelNodeCall(v, recalc) =>
          /\ DOMAIN nodes' = (DOMAIN nodes) \ {v}
          /\ \A c \in DOMAIN edges' : c[1] # v /\ c[2] # v
          /\ \A c \in DOMAIN edges :
               (c[1] # v /\ c[2] # v) => (c \in DOMAIN edges' /\ edges'[c] = edges[c])
    ]_vars

\* C4 witness: del_node has returned, another node remains and a couple with
\* an edge is still stored
C4_Witness ==
  /\ last.op = "del_node" /\ Returned
  /\ nodes # EmptyDict
  /\ \E c \in DOMAIN edges : edges[c] # EmptyDict

\* C5: a successful del_edge(l, r) with no identifier removes the couple
\* (l, r) and changes no other couple; a successful del_edge(l, r, id) removes
\* the edge id under (l, r), leaves every other edge of that couple as it was
\* and changes no other couple.
C5_DelEdgeFrame ==
  [][(last'.op = "del_edge" /\ last'.err = "") =>
     \A l \in NodeIds, r \in NodeIds, id \in EdgeIds \cup {NoId}, recalc \in BOOLEAN :
       DelEdgeCall(l, r, id, recalc) =>
         /\ \A c \in ((DOMAIN edges) \cup (DOMAIN edges')) \ {<<l, r>>} :
              c \in DOMAIN edges /\ c \in DOMAIN edges' /\ edges'[c] = edges[c]
         /\ IF id = NoId
            THEN <<l, r>> \notin DOMAIN edges'
            ELSE /\ <<l, r>> \in DOMAIN edges' => id \notin DOMAIN edges'[<<l, r>>]
                 /\ \A e \in (DOMAIN edges[<<l, r>>]) \ {id} :
                      /\ <<l, r>> \in DOMAIN edges'
                      /\ e \in DOMAIN edges'[<<l, r>>]
                      /\ edges'[<<l, r>>][e] = edges[<<l, r>>][e]
                 /\ <<l, r>> \in DOMAIN edges' =>
                      DOMAIN edges'[<<l, r>>] \subseteq DOMAIN edges[<<l, r>>]
    ]_vars

\* C5 witness: del_edge has returned, the couple whose last edge it removed
\* is left without edges and another couple still holds its edge
C5_Witness ==
  /\ last.op = "del_edge" /\ Returned
  /\ \E c \in DOMAIN edges : Cardinality(DOMAIN edges[c]) = 1
  /\ \E c \in DOMAIN edges : edges[c] = EmptyDict

\* C6: add_edge(l, r, id, replace=False) on an edge id that exists under the
\* couple (l, r) raises EdgeAlreadyExists and leaves the edge store, the node
\* store and the calculated attributes as they were.
C6_AddExistingEdgeRaises ==
  [][last'.op = "add_edge" =>
      \A l \in NodeIds, r \in NodeIds, id \in EdgeIds :
        EdgeExists(l, r, id) =>
          \A create \in BOOLEAN, recalc \in BOOLEAN, attributes \in EdgeAttrs :
            AddEdgeCall(l, r, id, FALSE, create, recalc, attributes) =>
              /\ last'.err = "EdgeAlreadyExists"
              /\ nodes' = nodes
              /\ edges' = edges
              /\ order' = order
    ]_vars

\* C6 witness: add_edge has raised EdgeAlreadyExists on a graph that holds an
\* edge with attributes and a node whose calculated attributes were never set
C6_Witness ==
  /\ last.op = "add_edge" /\ last.err = "EdgeAlreadyExists"
  /\ \E c \in DOMAIN edges : \E e \in DOMAIN edges[c] : edges[c][e] # EmptyDict
  /\ \E v \in DOMAIN nodes : "degree" \notin DOMAIN nodes[v]

\* C7: a successful add_edge(l, r, ...) with add_non_existent_incident_nodes=True
\* leaves l and r in the node store: an endpoint that was missing has no
\* attribute of its own (its record is empty when nothing is recalculated), an
\* endpoint that existed keeps its attributes (its whole record when nothing is
\* recalculated).
C7_AddEdgeCreatesMissingEndpoints ==
  [][(last'.op = "add_edge" /\ last'.err = "") =>
      \A l \in NodeIds, r \in NodeIds :
        AddEdgeStores(l, r) =>
          \A id \in EdgeIds \cup {NoId}, attributes \in EdgeAttrs :
            AddEdgeHolds(l, r, id, attributes) =>
              \A replace \in BOOLEAN, recalc \in BOOLEAN :
                AddEdgeCall(l, r, id, replace, TRUE, recalc, attributes) =>
                  \A n \in {l, r} :
                    /\ n \in DOMAIN nodes'
                    /\ IF n \in DOMAIN nodes
                       THEN /\ UserAttrs(nodes'[n]) = UserAttrs(nodes[n])
                            /\ ~recalc => nodes'[n] = nodes[n]
                       ELSE /\ UserAttrs(nodes'[n]) = EmptyDict
                            /\ ~recalc => nodes'[n] = EmptyDict
    ]_vars

\* C7 witness: add_edge has returned and its couple joins an endpoint with an
\* attribute of its own to an endpoint with an empty record
C7_Witness ==
  /\ last.op = "add_edge" /\ Returned
  /\ \E c \in DOMAIN edges :
       /\ c[1] \in DOMAIN nodes /\ c[2] \in DOMAIN nodes
       /\ UserAttrs(nodes[c[1]]) # EmptyDict
       /\ nodes[c[2]] = EmptyDict

\* C8: add_node(id, replace=True, attrs) on an existing node returns, keeps
\* the node's degree and neighbors values, replaces every other attribute by
\* exactly attrs, changes no other node and no edge, and recalculates nothing.
C8_ReplaceKeepsCalculatedAttributes ==
  [][last'.op = "add_node" =>
     \A id \in NodeIds, attributes \in NodeAttrs :
       (/\ id \in DOMAIN nodes
        /\ AddNodeCall(id, TRUE, attributes)) =>
         /\ last'.err = ""
         /\ DOMAIN nodes' = DOMAIN nodes
         /\ Get(nodes'[id], "degree") = Get(nodes[id], "degree")
         /\ Get(nodes'[id], "neighbors") = Get(nodes[id], "neighbors")
         /\ UserAttrs(nodes'[id]) = attributes
         /\ \A n \in (DOMAIN nodes) \ {id} : nodes'[n] = nodes[n]
         /\ edges' = edges
         /\ order' = order
    ]_vars

\* C8 witness: add_node has returned on a graph where a node has an attribute
\* of its own and keeps a degree that the edge store no longer gives it
C8_Witness ==
  /\ last.op = "add_node" /\ Returned
  /\ edges = EmptyDict
  /\ \E v \in DOMAIN nodes :
       UserAttrs(nodes[v]) # EmptyDict /\ Get(nodes[v], "degree") = IntV(1)

\* C9: after calc_neighbors completes on a DirectedGraph, neighbors(v) is the
\* set of right endpoints of the couples whose left endpoint is v.
C9_NeighborsAreSuccessors ==
  (last.op = "calc_neighbors" /\ Returned) =>
    \A v \in DOMAIN nodes :
      nodes[v]["neighbors"] = SetV({c[2] : c \in {d \in DOMAIN edges : d[1] = v}})

\* C9 witness: calc_neighbors has returned, u is a neighbor of v, v is not a
\* neighbor of u and u, only a right endpoint, has no neighbors
C9_Witness ==
  /\ last.op = "calc_neighbors" /\ Returned
  /\ \E v \in DOMAIN nodes, u \in DOMAIN nodes :
       /\ u \in nodes[v]["neighbors"].v
       /\ v \notin nodes[u]["neighbors"].v
       /\ nodes[u]["neighbors"] = SetV({})

\* the edges that leave v and the edges that enter v
OutDegree(v) == EdgeCount({c \in DOMAIN edges : c[1] = v})
InDegree(v) == EdgeCount({c \in DOMAIN edges : c[2] = v})

\* C10: after calc_degree completes on a DirectedGraph, degree(v) is
\* in-degree(v) + out-degree(v), an edge of a loop couple counted in both.
C10_DegreeIsInPlusOut ==
  (last.op = "calc_degree" /\ Returned) =>
    \A v \in DOMAIN nodes : nodes[v]["degree"] = IntV(InDegree(v) + OutDegree(v))

\* C10 witness: calc_degree has returned and a node has degree 4 from two
\* parallel loop edges
C10_Witness ==
  /\ last.op = "calc_degree" /\ Returned
  /\ \E v \in DOMAIN nodes :
       /\ <<v, v>> \in DOMAIN edges
       /\ Cardinality(DOMAIN edges[<<v, v>>]) = 2
       /\ nodes[v]["degree"] = IntV(4)

\* C11: clear_edges returns with the edge store empty, every node of the node
\* store at degree 0 with an empty neighbor set, and the node identifiers and
\* every non-calculated node attribute as they were before the call.
C11_ClearEdgesResetsCalculated ==
  [][last'.op = "clear_edges" =>
      /\ last'.err = ""
      /\ edges' = EmptyDict
      /\ DOMAIN nodes' = DOMAIN nodes
      /\ \A v \in DOMAIN nodes :
           /\ Get(nodes'[v], "degree") = IntV(0)
           /\ Get(nodes'[v], "neighbors") = SetV({})
           /\ UserAttrs(nodes'[v]) = UserAttrs(nodes[v])
    ]_vars

\* C11 witness: clear_edges has returned on a graph with two nodes, one of
\* them with an attribute of its own
C11_Witness ==
  /\ last.op = "clear_edges" /\ Returned
  /\ Cardinality(DOMAIN nodes) = 2
  /\ \E v \in DOMAIN nodes : UserAttrs(nodes[v]) # EmptyDict

\* get_subgraph has returned / has been called: out holds its arguments
SubgraphReturned == last.op = "get_subgraph" /\ Returned
\* the couple c is in the subgraph handed back, with the edges it has in the source
Retained(c) == c \in DOMAIN out.edges /\ out.edges[c] = edges[c]
\* the retention rule over the set S of node identifiers
Selects(S, fullmatch, c) ==
  IF fullmatch THEN c[1] \in S /\ c[2] \in S ELSE c[1] \in S \/ c[2] \in S

\* C12, as claimed: get_subgraph(S, fullmatch) hands back a graph in which a
\* couple of the source, with all its edge identifiers and their attributes,
\* is present iff both endpoints are in S (fullmatch) or at least one is (not
\* fullmatch).
C12_CoupleRetainedIffSelected ==
  SubgraphReturned =>
    \A c \in DOMAIN edges :
      Retained(c) <=> Selects(out.selected_nodes, out.fullmatch, c)

\* C12, amended: get_subgraph(S, fullmatch) returns unless the rule, over the
\* identifiers of S that have a node record, selects a couple that holds an
\* edge and has an endpoint without a node record (KeyError) or with a
\* record that holds a keyword of the copying call (TypeError).
\* When it returns, a couple of the source that holds at least one edge is in
\* the result, with all its edge identifiers and their attributes, iff the
\* rule selects it; a couple that holds no edge is not in the result, and the
\* result has no couple that the source has not.
C12_NonEmptyCoupleRetainedIffSelectedAmongNodes ==
  last.op = "get_subgraph" =>
    LET S == out.selected_nodes \cap DOMAIN nodes
        chosen == {c \in DOMAIN edges :
                     edges[c] # EmptyDict /\ Selects(S, out.fullmatch, c)}
    IN /\ Returned <=> \A c \in chosen : \A n \in {c[1], c[2]} :
                          /\ n \in DOMAIN nodes
                          /\ DOMAIN nodes[n] \cap CopyNodeKeywords = {}
       /\ Returned =>
            /\ DOMAIN out.edges = chosen
            /\ \A c \in chosen : Retained(c)

\* C12 witness: get_subgraph with fullmatch=True has returned one couple and
\* left out a couple that holds an edge and has one endpoint selected
C12_Witness ==
  /\ SubgraphReturned /\ out.fullmatch
  /\ \E c \in DOMAIN out.edges : Retained(c)
  /\ \E c \in (DOMAIN edges) \ (DOMAIN out.edges) :
       /\ edges[c] # EmptyDict
       /\ (c[1] \in out.selected_nodes \/ c[2] \in out.selected_nodes)

\* C13, as claimed: the nodes of the subgraph handed back are exactly the
\* endpoints of its couples, and each of them has exactly the non-calculated
\* attributes, keys and values, that it has in the source graph.
C13_SubgraphNodesKeepTheirAttributes ==
  SubgraphReturned =>
    /\ DOMAIN out.nodes = UNION {{c[1], c[2]} : c \in DOMAIN out.edges}
    /\ \A n \in DOMAIN out.nodes : UserAttrs(out.nodes[n]) = UserAttrs(nodes[n])

\* describe has returned: out.v is the description
Described == last.op = "describe" /\ Returned
NonLoopCouples == {c \in DOMAIN edges : c[1] # c[2]}

\* C14, as claimed: describe() reports complete_graph = true iff the number
\* of non-loop couples of the edge store, (a, b) and (b, a) being two
\* couples, is n * (n - 1) / 2 for n the number of nodes.
C14_CompleteCountsDirectedCouples ==
  Described =>
    (out.v.complete_graph <=>
       2 * Cardinality(NonLoopCouples) = Cardinality(DOMAIN nodes) * (Cardinality(DOMAIN nodes) - 1))

\* C14, amended: describe() reports complete_graph = true iff the number of
\* unordered pairs of distinct nodes joined by a couple of the edge store,
\* (a, b) and (b, a) making one pair, is n * (n - 1) / 2.
C14_CompleteCountsUnorderedPairs ==
  Described =>
    (out.v.complete_graph <=>
       2 * Cardinality({{c[1], c[2]} : c \in NonLoopCouples})
         = Cardinality(DOMAIN nodes) * (Cardinality(DOMAIN nodes) - 1))

\* C14 witness: describe() has reported a complete graph on two nodes joined
\* by the couples (a, b) and (b, a)
C14_Witness ==
  /\ Described /\ out.v.complete_graph
  /\ Cardinality(DOMAIN nodes) = 2
  /\ \E c \in NonLoopCouples : <<c[2], c[1]>> \in NonLoopCouples

\* the couples to which the step has added an edge identifier
CouplesGrown ==
  {c \in DOMAIN edges' : c \notin DOMAIN edges \/ DOMAIN edges'[c] # DOMAIN edges[c]}

\* the identifiers a second edge may take: one more than the graph can hold
SecondEdgeIds == EdgeIds \cup {"e3"}

\* what describe() reports once a second edge, with another identifier, has
\* been added under the couple c of the graph g; TRUE when either call raises.
\* The second call recalculates nothing: describe() does, and raises where
\* the call would have
AfterSecondEdge(g, c, Reports(_)) ==
  \A id \in SecondEdgeIds \ DOMAIN g.edges[c], attributes \in EdgeAttrs,
     create \in BOOLEAN :
    LET second == add_edge(g, c[1], c[2], id, FALSE, create, FALSE, attributes)
        d == describe(second.g)
    IN (second.err = "" /\ d.err = "") => Reports(d.ret)

\* describe() reports multi_graph = true iff some couple holds more than one
\* edge identifier, and number_of_edges is the number of couples
DescribeCountsCouples ==
  Described =>
    /\ out.v.multi_graph <=> \E c \in DOMAIN edges : Cardinality(DOMAIN edges[c]) > 1
    /\ out.v.number_of_edges = Cardinality(DOMAIN edges)
    /\ out.v.number_of_nodes = Cardinality(DOMAIN nodes)

\* C15, as claimed: describe() reports multi_graph = true iff some couple
\* holds more than one edge identifier and number_of_edges = the number of
\* couples; and once two edges with distinct identifiers have been added
\* between the same two nodes, multi_graph is true and number_of_edges is one
\* more than before the two additions.
C15_ParallelEdgesGrowCountByOne ==
  /\ []DescribeCountsCouples
  /\ [][(last'.op = "add_edge" /\ last'.err = "") =>
          \A c \in CouplesGrown :
            AfterSecondEdge(Self', c,
              LAMBDA d : d.multi_graph
                         /\ d.number_of_edges = Cardinality(DOMAIN edges) + 1)
       ]_vars

\* C15, amended: the same report; and once two edges with distinct
\* identifiers have been added under one couple, multi_graph is true and
\* number_of_edges is one more than before the two additions when the couple
\* was not in the edge store, and what it was before when the couple was.
C15_ParallelEdgesGrowCountForNewCouple ==
  /\ []DescribeCountsCouples
  /\ [][(last'.op = "add_edge" /\ last'.err = "") =>
          \A c \in CouplesGrown :
            AfterSecondEdge(Self', c,
              LAMBDA d : d.multi_graph
                         /\ d.number_of_edges =
                              Cardinality(DOMAIN edges)
                                + (IF c \in DOMAIN edges THEN 0 ELSE 1))
       ]_vars

\* C15 witness: describe() has reported a multigraph with one couple, which
\* holds two edges
C15_Witness ==
  /\ Described /\ out.v.multi_graph /\ out.v.number_of_edges = 1
  /\ \E c \in DOMAIN edges : Cardinality(DOMAIN edges[c]) = 2

\* the couples of the edge store whose two endpoints are equal
LoopCouples == {c \in DOMAIN edges : c[1] = c[2]}
\* the elements of the sequence s
Range(s) == {s[i] : i \in 1..Len(s)}

\* the latest next() has run the generator to its end: out.v is what it
\* has yielded in all
Drained == last.op = "next" /\ out.t = "ended"

\* C16 as claimed: every invocation of find_loops(), wherever it falls in a
\* sequence of calls and whatever is called while it is iterated, yields
\* exactly the couples of the edge store whose two endpoints are equal, each
\* once, and ends: so for list(find_loops()), and so for a generator run to
\* its end by next() (it ends with StopIteration, and every couple it yields
\* is a loop couple of the edge store); describe() reports pseudo_graph =
\* true iff there is such a couple; and when add_edge has put a loop couple
\* into an edge store that held none, find_loops() yields exactly that
\* couple.
C16_FindLoopsYieldsCurrentLoops ==
  /\ [](last.op = "list_find_loops" =>
          /\ Returned
          /\ Range(out.v) = LoopCouples
          /\ Len(out.v) = Cardinality(LoopCouples))
  /\ [](Drained =>
          /\ last.err = "StopIteration"
          /\ Range(out.v) = LoopCouples
          /\ Len(out.v) = Cardinality(LoopCouples))
  /\ []((last.op = "next" /\ out.t = "yielded") => out.v \in LoopCouples)
  /\ [](Described => (out.v.pseudo_graph <=> LoopCouples # {}))
  /\ [][(last'.op = "add_edge" /\ LoopCouples = {}) =>
          \A v \in NodeIds :
            <<v, v>> \in DOMAIN edges' => find_loops(Self') = << <<v, v>> >>
       ]_vars

\* the errors of the type and shape checks of the two validations
ValidationErrors ==
  {"WrongTypeOfNodes", "WrongTypeOfNodeIdentifier", "WrongTypeOfNodeAttributes",
   "WrongTypeOfEdges", "WrongTypeOfCouple", "WrongLengthOfCouple",
   "WrongTypeOfNodeIdentifierInCouple", "WrongTypeOfMultipleEdges",
   "WrongLengthOfMultipleEdges", "WrongTypeOfEdgeIdentifier",
   "WrongTypeOfEdgeAttributes"}

\* C17 as claimed: an assignment to the nodes or edges property that raises a
\* type or shape validation error leaves the node store and the edge store
\* exactly as they were before the assignment
C17_FailedLoadLeavesStores ==
  [][(/\ last'.op \in {"set_nodes", "set_edges"}
      /\ last'.err \in ValidationErrors)
     => (nodes' = nodes /\ edges' = edges /\ order' = order)]_vars

\* C18 as claimed: assigning to the edges property a mapping whose couple maps
\* to an empty inner mapping succeeds and stores for that couple exactly one
\* edge, under a generated identifier, without attributes
C18_EmptyInnerMappingInsertsOneEdge ==
  [][\A gen \in Generated(EmptyInner) :
       SetEdgesCall(EmptyInner, gen)
       => /\ last'.err = ""
          /\ DOMAIN edges' = {<<"a", "b">>}
          /\ \E id \in EdgeIds : edges'[<<"a", "b">>] = id :> EmptyDict]_vars

\* len(self.nodes)
NodeCount(g) == Cardinality(DOMAIN g.nodes)

\* the step is a successful add_node(identifier, ...)
AddedNode(identifier) ==
  /\ last'.op = "add_node"
  /\ last'.err = ""
  /\ \E replace \in BOOLEAN, attributes \in NodeAttrs :
       LET res == add_node(Self, identifier, replace, attributes)
       IN res.err = "" /\ Self' = res.g

\* C19 as claimed: after a successful add_node(id, ...), whatever replace
\* was, del_node(id) leaves as many nodes as there were before the add_node
C19_AddThenDelRestoresCount ==
  [][\A identifier \in NodeIds, recalc \in BOOLEAN :
       AddedNode(identifier)
       => NodeCount(del_node(Self', identifier, recalc).g) = NodeCount(Self)]_vars

\* C19 amended: after a successful add_node(id, ...) del_node(id) leaves as
\* many nodes as before the add_node when the add_node created the node, and
\* one node fewer when it replaced a node that was already there
C19_AddThenDelRestoresCountOfNewNode ==
  [][\A identifier \in NodeIds, recalc \in BOOLEAN :
       AddedNode(identifier)
       => NodeCount(del_node(Self', identifier, recalc).g)
            = IF identifier \in DOMAIN nodes
              THEN NodeCount(Self) - 1
              ELSE NodeCount(Self)]_vars

\* a node was just added to a graph holding another node and an edge, and
\* deleting a node of it brings the count down by one
C19_Witness ==
  /\ last.op = "add_node"
  /\ last.err = ""
  /\ edges # EmptyDict
  /\ NodeCount(Self) = 2
  /\ \E identifier \in DOMAIN nodes :
       /\ del_node(Self, identifier, TRUE).err = ""
       /\ NodeCount(del_node(Self, identifier, TRUE).g) = 1

\* C20 as claimed: a graph built from the node store and the edge store of a
\* reachable graph is built without an error and equals that graph
C20_RebuiltGraphEqualsOriginal ==
  last.op = "rebuild" => (last.err = "" /\ out.t = "graph" /\ out.equal)

\* C23 as claimed: after add_node has created a node whose identifier was
\* not in the graph, the record of the node holds degree and neighbors, both
\* None, next to the attributes supplied
C23_NewNodeHoldsCalculatedAttributes ==
  [][\A identifier \in NodeIds :
       (AddedNode(identifier) /\ identifier \notin DOMAIN nodes)
       => /\ Calculated \subseteq DOMAIN nodes'[identifier]
          /\ \A k \in Calculated : nodes'[identifier][k] = None]_vars

\* C25 as claimed: in every reachable state every couple of the edge store
\* holds at least one edge identifier
C25_NoCoupleIsEmpty ==
  \A c \in DOMAIN edges : DOMAIN edges[c] # {}

\* the step is a successful add_edge or del_edge that recalculates
RecalculatingEdgeCall ==
  /\ last'.op \in {"add_edge", "del_edge"}
  /\ last'.err = ""
  /\ \E node_l \in NodeIds, node_r \in NodeIds, identifier \in EdgeIds \cup {NoId} :
       \/ DelEdgeCall(node_l, node_r, identifier, TRUE)
       \/ \E replace \in BOOLEAN, create \in BOOLEAN, attributes \in EdgeAttrs :
            AddEdgeCall(node_l, node_r, identifier, replace, create, TRUE, attributes)

\* the couples that hold at least one edge
CouplesWithEdges(g) == {c \in DOMAIN g.edges : DOMAIN g.edges[c] # {}}

\* C26 as claimed: after an add_edge or del_edge with recalculation, r is a
\* neighbor of l exactly when an edge from l to r exists, and describe()
\* counts in number_of_edges only the couples that hold an edge
C26_NeighborsFollowExistingEdges ==
  [][RecalculatingEdgeCall
     => /\ \A l \in DOMAIN nodes', r \in NodeIds :
             (r \in nodes'[l]["neighbors"].v) <=> (<<l, r>> \in CouplesWithEdges(Self'))
        /\ describe(Self').ret.number_of_edges
             = Cardinality(CouplesWithEdges(Self'))]_vars

\* C24 as claimed, for a selection of nodes of a graph whose edges all join
\* nodes of the graph: with fullmatch False the subgraph holds only selected
\* nodes, and with fullmatch True it also holds the nodes adjacent to a
\* selected node, both endpoints of every edge that touches the selection
C24_FullmatchIncludesAdjacentNodes ==
  (/\ last.op = "get_subgraph" /\ out.t = "subgraph"
   /\ out.selected_nodes \subseteq DOMAIN nodes
   /\ \A c \in DOMAIN edges : {c[1], c[2]} \subseteq DOMAIN nodes) =>
    IF out.fullmatch
    THEN \A c \in CouplesWithEdges(Self) :
           (c[1] \in out.selected_nodes \/ c[2] \in out.selected_nodes)
           => {c[1], c[2]} \subseteq DOMAIN out.nodes
    ELSE DOMAIN out.nodes \subseteq out.selected_nodes

\* the node store and the edge store as a caller reads them: an attribute
\* that holds a list shows what the list holds
Shown(d) == [k \in DOMAIN d |-> Held(d[k])]
SourceNodes == [n \in DOMAIN nodes |-> Shown(nodes[n])]
SourceEdges == [c \in DOMAIN edges |-> [e \in DOMAIN edges[c] |-> Shown(edges[c][e])]]

\* what a caller does to the subgraph handed back
SubgraphMutations == {"sub_append", "sub_setitem", "sub_del_edge"}

\* C22 as claimed: describe() and get_subgraph() leave the graph they are
\* called on with the same node identifiers, the same non-calculated
\* attributes of every node and the same edge store (only degree and
\* neighbors may differ), and whatever the caller then changes in the graph
\* get_subgraph handed back, the node store and the edge store of the
\* source graph read as before
C22_ProjectionsLeaveTheGraph ==
  [][/\ last'.op \in {"describe", "get_subgraph"}
        => /\ DOMAIN nodes' = DOMAIN nodes
           /\ \A n \in DOMAIN nodes :
                UserAttrs(Shown(nodes[n]))' = UserAttrs(Shown(nodes[n]))
           /\ SourceEdges' = SourceEdges
           /\ order' = order
     /\ last'.op \in SubgraphMutations
        => /\ SourceNodes' = SourceNodes
           /\ SourceEdges' = SourceEdges]_vars

\* C21: after the same successful add_edge, del_edge and del_node calls,
\* calc_degree and calc_neighbors on the object that deferred recalculation
\* give the node store and the edge store of the object that recalculated
\* on every call
C21_DeferredEqualsImmediate ==
  \E r \in {Recalculate(Self, TRUE)} : r.err = "" /\ r.g = eager

\* C21 witness: three calls were made, the last a del_node, edges are left,
\* and before the recalculation the node stores of the two objects differ
C21_Witness ==
  /\ calls = MaxCalls
  /\ last.op = "del_node"
  /\ edges # EmptyDict
  /\ nodes # eager.nodes

====
